---- MODULE Spec2Model ----
(***************************************************************************)
(* Model of the amortization engine of mortgage_pv_calculator.py and of    *)
(* the dashboard flow of mortgage_dashboard.py that calls it.              *)
(*                                                                         *)
(* Numbers are exact rationals [num, den] in lowest terms with den > 0;    *)
(* the record with den = 0 stands for a ZeroDivisionError raised by a      *)
(* division and propagates through every later operation of the call.      *)
(* Rounding of double precision is not modelled: every statement below is  *)
(* about the values the formulas of the code denote.                       *)
(***************************************************************************)
EXTENDS Integers, Sequences, FiniteSets, TLC

\* ------------------------------------------------------------------------
\* Bounds of the model
\* ------------------------------------------------------------------------
MaxYears == 3
MaxPaymentHalves == 26
MaxNewPeriods == 6
MaxMagnitude == 1000000000

\* ------------------------------------------------------------------------
\* Exact arithmetic
\* ------------------------------------------------------------------------
Abs(i) == IF i < 0 THEN -i ELSE i

RECURSIVE GCD(_, _)
GCD(a, b) == IF b = 0 THEN a ELSE GCD(b, a % b)

NaR == [num |-> 0, den |-> 0]

IsNaR(a) == a.den = 0

R(n, d) ==
    IF d = 0 THEN NaR
    ELSE LET g == GCD(Abs(n), Abs(d))
             s == IF d < 0 THEN -1 ELSE 1
         IN  [num |-> s * (n \div g), den |-> s * (d \div g)]

RInt(i) == [num |-> i, den |-> 1]

Zero == RInt(0)

One == RInt(1)

RAdd(a, b) ==
    IF IsNaR(a) \/ IsNaR(b) THEN NaR
    ELSE LET g == GCD(a.den, b.den)
         IN  R(a.num * (b.den \div g) + b.num * (a.den \div g),
               a.den * (b.den \div g))

RNeg(a) == [num |-> -a.num, den |-> a.den]

RSub(a, b) == RAdd(a, RNeg(b))

RMul(a, b) ==
    IF IsNaR(a) \/ IsNaR(b) THEN NaR
    ELSE LET g1 == GCD(Abs(a.num), b.den)
             g2 == GCD(Abs(b.num), a.den)
         IN  R((a.num \div g1) * (b.num \div g2),
               (a.den \div g2) * (b.den \div g1))

RDiv(a, b) ==
    IF IsNaR(a) \/ IsNaR(b) \/ b.num = 0 THEN NaR
    ELSE RMul(a, R(b.den, b.num))

RECURSIVE RPow(_, _)
RPow(a, n) ==
    IF n = 0 THEN One
    ELSE LET h == RPow(a, n \div 2)
         IN  IF n % 2 = 0 THEN RMul(h, h) ELSE RMul(RMul(h, h), a)

RLt(a, b) == RSub(a, b).num < 0

RLeq(a, b) == RSub(a, b).num <= 0

RCeil(a) == -((-a.num) \div a.den)

RMax0(a) == IF a.num < 0 THEN Zero ELSE a

\* ------------------------------------------------------------------------
\* Inputs
\* ------------------------------------------------------------------------
Principals == {RInt(4), RInt(12)}

AnnualRates == {Zero, R(1, 2), One, RInt(12)}

Frequencies ==
    {"monthly", "quarterly", "annual", "Monthly", "ANNUAL", "Annual", "weekly"}

Payments == {R(h, 2) : h \in 0..MaxPaymentHalves}

\* ------------------------------------------------------------------------
\* mortgage_pv_calculator.py
\* ------------------------------------------------------------------------
\* mutant: the key is looked up as given, without lowering its case
Lower_AsGiven(s) == s

Lower(s) ==
    CASE s = "Monthly" -> "monthly"
      [] s = "Annual" -> "annual"
      [] s = "ANNUAL" -> "annual"
      [] OTHER -> s

freq_map == [monthly |-> 12, quarterly |-> 4, annual |-> 1]

NoPayment == [error |-> "KeyError", payment |-> Zero, y |-> Zero, n |-> 0]

\* mutant: the numerator compounds over n - 1 periods
PaymentFormula_ShortCompounding(principal_, y, n) ==
    IF y = Zero THEN RDiv(principal_, RInt(n))
    ELSE RDiv(RMul(principal_, RMul(y, RPow(RAdd(One, y), n - 1))),
              RSub(RPow(RAdd(One, y), n), One))

\* mutant: the annuity formula at every rate, zero included
PaymentFormula_NoZeroBranch(principal_, y, n) ==
    RDiv(RMul(principal_, RMul(y, RPow(RAdd(One, y), n))),
         RSub(RPow(RAdd(One, y), n), One))

\* the two branches of the payment formula
PaymentFormula(principal_, y, n) ==
    IF y = Zero THEN RDiv(principal_, RInt(n))
    ELSE RDiv(RMul(principal_, RMul(y, RPow(RAdd(One, y), n))),
              RSub(RPow(RAdd(One, y), n), One))

\* return payment, y, n; a division by zero raises instead
PaymentResult(payment, y, n) ==
    [error |-> IF IsNaR(payment) THEN "ZeroDivisionError" ELSE "none",
     payment |-> payment, y |-> y, n |-> n]

PaymentAt(principal_, y, n) == PaymentResult(PaymentFormula(principal_, y, n), y, n)

calculate_payment(principal_, annual_rate_, years_, frequency_) ==
    IF Lower(frequency_) \notin DOMAIN freq_map THEN NoPayment
    ELSE PaymentAt(principal_,
                   RDiv(annual_rate_, RInt(freq_map[Lower(frequency_)])),
                   years_ * freq_map[Lower(frequency_)])

\* mutant: the value of the remaining payments is not discounted
RemainingPV_Undiscounted(payment, y, remaining_periods) ==
    IF remaining_periods = 0 THEN Zero
    ELSE IF y = Zero THEN RMul(payment, RInt(remaining_periods))
    ELSE RDiv(RMul(payment, RSub(RPow(RAdd(One, y), remaining_periods), One)), y)

RemainingPV(payment, y, remaining_periods) ==
    IF remaining_periods = 0 THEN Zero
    ELSE IF y = Zero THEN RMul(payment, RInt(remaining_periods))
    ELSE RDiv(RMul(payment, RSub(RPow(RAdd(One, y), remaining_periods), One)),
              RMul(y, RPow(RAdd(One, y), remaining_periods)))

\* mutant: the payment just made is counted among the remaining ones
calculate_outstanding_pv_OffByOne(payment, y, n, k) == RemainingPV(payment, y, n - k + 1)

calculate_outstanding_pv(payment, y, n, k) == RemainingPV(payment, y, n - k)

\* the row of payment k, given the interest and the balance of that period
ScheduleRow(payment, y, k, loop, interest_paid, outstanding_balance) ==
    [Payment_Number |-> k,
     Payment_Amount |-> payment,
     Interest_Paid |-> interest_paid,
     Principal_Paid |-> RSub(payment, interest_paid),
     PV_of_Principal |-> RDiv(RSub(payment, interest_paid), RPow(RAdd(One, y), k)),
     Outstanding_Balance |-> outstanding_balance,
     Cumulative_Interest |-> RAdd(loop.cumulative_interest, interest_paid),
     Cumulative_Principal |->
         RAdd(loop.cumulative_principal, RSub(payment, interest_paid))]

\* the loop's variables after the row of payment loop.k was appended
ScheduleAppend(loop, row) ==
    [k |-> loop.k + 1,
     outstanding_prev |-> row.Outstanding_Balance,
     cumulative_interest |-> row.Cumulative_Interest,
     cumulative_principal |-> row.Cumulative_Principal,
     schedule_data |-> Append(loop.schedule_data, row)]

\* one iteration of the loop of generate_amortization_schedule; loop is the
\* record of the loop's variables
ScheduleStep(payment, y, n, loop) ==
    ScheduleAppend(loop,
        ScheduleRow(payment, y, loop.k, loop,
                    RMul(loop.outstanding_prev, y),
                    calculate_outstanding_pv(payment, y, n, loop.k)))

\* for k in range(loop.k, hi + 1): the iterations in increasing order of k,
\* the first half of the range before the second
RECURSIVE ScheduleLoop(_, _, _, _, _)
ScheduleLoop(payment, y, n, hi, loop) ==
    IF loop.k > hi THEN loop
    ELSE IF loop.k = hi THEN ScheduleStep(payment, y, n, loop)
    ELSE ScheduleLoop(payment, y, n, hi,
                      ScheduleLoop(payment, y, n, (loop.k + hi) \div 2, loop))

RowRaised(row) ==
    \/ IsNaR(row.Payment_Amount)
    \/ IsNaR(row.Interest_Paid)
    \/ IsNaR(row.Principal_Paid)
    \/ IsNaR(row.PV_of_Principal)
    \/ IsNaR(row.Outstanding_Balance)

NoSchedule == [error |-> "KeyError", df |-> <<>>, payment |-> Zero, y |-> Zero, n |-> 0]

\* return df, payment, y, n; a division by zero in a row raises instead
ScheduleResult(df, cp) ==
    IF \E i \in 1..Len(df) : RowRaised(df[i])
    THEN [NoSchedule EXCEPT !.error = "ZeroDivisionError"]
    ELSE [error |-> "none", df |-> df, payment |-> cp.payment, y |-> cp.y, n |-> cp.n]

\* the schedule of the loan whose payment, rate and count are cp
ScheduleOf(principal_, cp) ==
    IF cp.error # "none" THEN [NoSchedule EXCEPT !.error = cp.error]
    ELSE ScheduleResult(
             ScheduleLoop(cp.payment, cp.y, cp.n, cp.n,
                          [k |-> 1,
                           outstanding_prev |-> principal_,
                           cumulative_interest |-> Zero,
                           cumulative_principal |-> Zero,
                           schedule_data |-> <<>>]).schedule_data,
             cp)

generate_amortization_schedule(principal_, annual_rate_, years_, frequency_) ==
    ScheduleOf(principal_, calculate_payment(principal_, annual_rate_, years_, frequency_))

\* np.ceil(np.log(x) / np.log(base)) for x > 1 and base > 1: the least k
\* with base^k >= x, found by raising the power one step at a time.
RECURSIVE CeilLogFrom(_, _, _, _)
CeilLogFrom(x, base, k, power) ==
    IF RLeq(x, power) THEN k
    ELSE CeilLogFrom(x, base, k + 1, RMul(power, base))

CeilLogRatio(x, base) == CeilLogFrom(x, base, 0, One)

\* the quotient whose ceiling (rate zero) or whose logarithm (otherwise)
\* gives the horizon; a zero divisor raises
HorizonQuotient(principal_, y, increased_payment_) ==
    IF y = Zero THEN RDiv(principal_, increased_payment_)
    ELSE RDiv(increased_payment_, RSub(increased_payment_, RMul(principal_, y)))

\* mutant: the horizon rounded down and one added
AnalyticHorizon_FloorPlusOne(principal_, y, increased_payment_) ==
    IF y = Zero
    THEN (HorizonQuotient(principal_, y, increased_payment_).num
            \div HorizonQuotient(principal_, y, increased_payment_).den) + 1
    ELSE CeilLogRatio(HorizonQuotient(principal_, y, increased_payment_), RAdd(One, y))

\* mutant: the operands of the division at rate zero exchanged
AnalyticHorizon_Swapped(principal_, y, increased_payment_) ==
    IF y = Zero THEN RCeil(RDiv(increased_payment_, principal_))
    ELSE CeilLogRatio(HorizonQuotient(principal_, y, increased_payment_), RAdd(One, y))

\* n_new = int(np.ceil(n_new)) of the two branches
AnalyticHorizon(principal_, y, increased_payment_) ==
    IF y = Zero THEN RCeil(HorizonQuotient(principal_, y, increased_payment_))
    ELSE CeilLogRatio(HorizonQuotient(principal_, y, increased_payment_), RAdd(One, y))

\* the row of payment k of the accelerated schedule, given the interest of
\* the period and the principal it repays
PayoffRow(y, k, loop, interest_paid, principal_paid, actual_payment) ==
    [Payment_Number |-> k,
     Payment_Amount |-> actual_payment,
     Interest_Paid |-> interest_paid,
     Principal_Paid |-> principal_paid,
     PV_of_Principal |-> RDiv(principal_paid, RPow(RAdd(One, y), k)),
     Outstanding_Balance |-> RMax0(RSub(loop.outstanding, principal_paid)),
     Cumulative_Interest |-> RAdd(loop.cumulative_interest, interest_paid)]

\* the loop's variables after the row of payment loop.k was appended
PayoffAppend(loop, row) ==
    [k |-> loop.k + 1,
     outstanding |-> RSub(loop.outstanding, row.Principal_Paid),
     cumulative_interest |-> row.Cumulative_Interest,
     schedule_data |-> Append(loop.schedule_data, row)]

\* mutant: the last payment is split like every other
PayoffStep_UniformLastRow(increased_payment_, y, n_new, loop) ==
    PayoffAppend(loop,
        PayoffRow(y, loop.k, loop, RMul(loop.outstanding, y),
                  RSub(increased_payment_, RMul(loop.outstanding, y)),
                  increased_payment_))

\* one iteration of the loop of calculate_accelerated_payoff
PayoffStep(increased_payment_, y, n_new, loop) ==
    PayoffAppend(loop,
        IF loop.k = n_new
        THEN PayoffRow(y, loop.k, loop, RMul(loop.outstanding, y),
                       loop.outstanding,
                       RAdd(loop.outstanding, RMul(loop.outstanding, y)))
        ELSE PayoffRow(y, loop.k, loop, RMul(loop.outstanding, y),
                       RSub(increased_payment_, RMul(loop.outstanding, y)),
                       increased_payment_))

\* for k in range(loop.k, hi + 1), as ScheduleLoop
RECURSIVE PayoffLoop(_, _, _, _, _)
PayoffLoop(increased_payment_, y, n_new, hi, loop) ==
    IF loop.k > hi THEN loop
    ELSE IF loop.k = hi THEN PayoffStep(increased_payment_, y, n_new, loop)
    ELSE PayoffLoop(increased_payment_, y, n_new, hi,
                    PayoffLoop(increased_payment_, y, n_new, (loop.k + hi) \div 2, loop))

NoPlan ==
    [kind |-> "None", n_new |-> 0, periods_saved |-> 0, interest_saved |-> Zero,
     new_df |-> <<>>]

\* the comparison with the reference schedule and the returned tuple
PayoffResult(n_new, new_df, original) ==
    IF original.error # "none" THEN [NoPlan EXCEPT !.kind = original.error]
    ELSE IF Len(original.df) = 0 \/ Len(new_df) = 0
    THEN [NoPlan EXCEPT !.kind = "IndexError"]
    ELSE [kind |-> "plan",
          n_new |-> n_new,
          periods_saved |-> Len(original.df) - n_new,
          interest_saved |-> RSub(original.df[Len(original.df)].Cumulative_Interest,
                                  new_df[Len(new_df)].Cumulative_Interest),
          new_df |-> new_df]

\* the new schedule of n_new payments and the reference schedule
PayoffPlan(principal_, annual_rate_, increased_payment_, frequency_, periods_per_year, y, n_new) ==
    PayoffResult(n_new,
                 PayoffLoop(increased_payment_, y, n_new, n_new,
                            [k |-> 1,
                             outstanding |-> principal_,
                             cumulative_interest |-> Zero,
                             schedule_data |-> <<>>]).schedule_data,
                 generate_amortization_schedule(principal_, annual_rate_,
                     (n_new \div periods_per_year) + 5, frequency_))

\* mutant: a payment equal to the interest-only payment passes the check
PayoffAt_StrictFloor(principal_, annual_rate_, increased_payment_, frequency_, periods_per_year, y) ==
    IF RLt(increased_payment_, RMul(principal_, y)) THEN NoPlan
    ELSE IF IsNaR(HorizonQuotient(principal_, y, increased_payment_))
    THEN [NoPlan EXCEPT !.kind = "ZeroDivisionError"]
    ELSE PayoffPlan(principal_, annual_rate_, increased_payment_, frequency_,
                    periods_per_year, y,
                    AnalyticHorizon(principal_, y, increased_payment_))

\* the feasibility check and the analytic horizon; a division by zero in
\* the horizon raises
PayoffAt(principal_, annual_rate_, increased_payment_, frequency_, periods_per_year, y) ==
    IF RLeq(increased_payment_, RMul(principal_, y)) THEN NoPlan
    ELSE IF IsNaR(HorizonQuotient(principal_, y, increased_payment_))
    THEN [NoPlan EXCEPT !.kind = "ZeroDivisionError"]
    ELSE PayoffPlan(principal_, annual_rate_, increased_payment_, frequency_,
                    periods_per_year, y,
                    AnalyticHorizon(principal_, y, increased_payment_))

calculate_accelerated_payoff(principal_, annual_rate_, original_payment, increased_payment_, frequency_) ==
    IF Lower(frequency_) \notin DOMAIN freq_map
    THEN [NoPlan EXCEPT !.kind = "KeyError"]
    ELSE PayoffAt(principal_, annual_rate_, increased_payment_, frequency_,
                  freq_map[Lower(frequency_)],
                  RDiv(annual_rate_, RInt(freq_map[Lower(frequency_)])))

\* ------------------------------------------------------------------------
\* Range of the model: the calls whose intermediate values stay below
\* MaxMagnitude and whose payoff horizon stays within MaxNewPeriods
\* ------------------------------------------------------------------------
RECURSIVE GrowthWithin(_, _, _)
GrowthWithin(b, n, cap) ==
    IF n = 0 \/ b = 1 THEN TRUE
    ELSE IF b > cap THEN FALSE
    ELSE GrowthWithin(b, n - 1, cap \div b)

Representable(principal_, y, n) ==
    GrowthWithin(RAdd(One, y).num, 2 * n,
                 MaxMagnitude \div (principal_.num * (IF y.num = 0 THEN 1 ELSE y.num)))

KnownFrequency(frequency_) == Lower(frequency_) \in DOMAIN freq_map

LoanInRange(principal_, annual_rate_, years_, frequency_) ==
    KnownFrequency(frequency_) =>
        Representable(principal_,
                      RDiv(annual_rate_, RInt(freq_map[Lower(frequency_)])),
                      years_ * freq_map[Lower(frequency_)])

HorizonWithin(principal_, y, increased_payment_) ==
    IF y = Zero
    THEN RCeil(RDiv(principal_, increased_payment_)) <= MaxNewPeriods
    ELSE /\ Representable(principal_, y, MaxNewPeriods)
         /\ RLeq(RDiv(increased_payment_,
                      RSub(increased_payment_, RMul(principal_, y))),
                 RPow(RAdd(One, y), MaxNewPeriods))

PayoffFits(principal_, y, periods_per_year, increased_payment_) ==
    RLt(RMul(principal_, y), increased_payment_) =>
        /\ HorizonWithin(principal_, y, increased_payment_)
        /\ Representable(principal_, y,
               ((AnalyticHorizon(principal_, y, increased_payment_)
                    \div periods_per_year) + 5) * periods_per_year)

PayoffInRange(principal_, annual_rate_, increased_payment_, frequency_) ==
    KnownFrequency(frequency_) =>
        PayoffFits(principal_,
                   RDiv(annual_rate_, RInt(freq_map[Lower(frequency_)])),
                   freq_map[Lower(frequency_)], increased_payment_)

\* ------------------------------------------------------------------------
\* State: the arguments of the calls made so far, the position of the caller
\* and the values the calls returned
\* ------------------------------------------------------------------------
VARIABLES principal, annual_rate, years, frequency, increased_payment,
          second_payment, pc, pay, sched, accel, accel2

vars == <<principal, annual_rate, years, frequency, increased_payment,
          second_payment, pc, pay, sched, accel, accel2>>

loan == <<principal, annual_rate, years, frequency>>

Init ==
    /\ principal = Zero
    /\ annual_rate = Zero
    /\ years = 0
    /\ frequency = ""
    /\ increased_payment = Zero
    /\ second_payment = Zero
    /\ pc = "start"
    /\ pay = NoPayment
    /\ sched = NoSchedule
    /\ accel = NoPlan
    /\ accel2 = NoPlan

\* a direct call of calculate_payment
CallCalculatePayment ==
    /\ pc = "start"
    /\ \E P \in Principals, r \in AnnualRates, t \in 1..MaxYears, f \in Frequencies :
        /\ LoanInRange(P, r, t, f)
        /\ principal' = P
        /\ annual_rate' = r
        /\ years' = t
        /\ frequency' = f
        /\ pay' = calculate_payment(P, r, t, f)
    /\ pc' = "payment"
    /\ UNCHANGED <<increased_payment, second_payment, sched, accel, accel2>>

\* a direct call of generate_amortization_schedule
CallGenerateSchedule ==
    /\ pc = "start"
    /\ \E P \in Principals, r \in AnnualRates, t \in 1..MaxYears, f \in Frequencies :
        /\ LoanInRange(P, r, t, f)
        /\ principal' = P
        /\ annual_rate' = r
        /\ years' = t
        /\ frequency' = f
        /\ sched' = generate_amortization_schedule(P, r, t, f)
    /\ pc' = "schedule"
    /\ UNCHANGED <<increased_payment, second_payment, pay, accel, accel2>>

\* a direct call of calculate_accelerated_payoff; original_payment is not
\* read by the function, the caller passes zero
CallAcceleratedPayoff ==
    /\ pc = "start"
    /\ \E P \in Principals, r \in AnnualRates, f \in Frequencies, p \in Payments :
        /\ PayoffInRange(P, r, p, f)
        /\ principal' = P
        /\ annual_rate' = r
        /\ frequency' = f
        /\ increased_payment' = p
        /\ accel' = calculate_accelerated_payoff(P, r, Zero, p, f)
    /\ pc' = "accel"
    /\ UNCHANGED <<years, second_payment, pay, sched, accel2>>

\* a second call for the same loan with another proposed payment
CallAcceleratedPayoffAgain ==
    /\ pc = "accel"
    /\ \E p \in Payments :
        /\ PayoffInRange(principal, annual_rate, p, frequency)
        /\ second_payment' = p
        /\ accel2' = calculate_accelerated_payoff(principal, annual_rate, Zero, p,
                                                  frequency)
    /\ pc' = "accel2"
    /\ UNCHANGED <<loan, increased_payment, pay, sched, accel>>

\* mortgage_dashboard.py: the schedule of the loan the user selected
DashboardSchedule ==
    /\ pc = "start"
    /\ \E P \in Principals, r \in AnnualRates, t \in 1..MaxYears,
          f \in Frequencies \cap {"Monthly", "Quarterly", "Annual"} :
        /\ LoanInRange(P, r, t, f)
        /\ principal' = P
        /\ annual_rate' = r
        /\ years' = t
        /\ frequency' = f
        /\ sched' = generate_amortization_schedule(P, r, t, Lower(f))
    /\ pc' = "dash_schedule"
    /\ UNCHANGED <<increased_payment, second_payment, pay, accel, accel2>>

\* mortgage_dashboard.py: the accelerated payoff analysis of that loan, made
\* when the schedule was produced and the payment entered exceeds the
\* scheduled one
DashboardAcceleratedPayoff ==
    /\ pc = "dash_schedule"
    /\ sched.error = "none"
    /\ \E p \in Payments :
        /\ RLt(sched.payment, p)
        /\ PayoffInRange(principal, annual_rate, p, frequency)
        /\ increased_payment' = p
        /\ accel' = calculate_accelerated_payoff(principal, annual_rate, sched.payment,
                                                 p, Lower(frequency))
    /\ pc' = "dash_accel"
    /\ UNCHANGED <<loan, second_payment, pay, sched, accel2>>

\* single calls of the three entry points and the dashboard's flow
Next ==
    \/ CallCalculatePayment
    \/ CallGenerateSchedule
    \/ CallAcceleratedPayoff
    \/ DashboardSchedule
    \/ DashboardAcceleratedPayoff

Spec == Init /\ [][Next]_vars

\* two calls of calculate_accelerated_payoff for one loan
NextRepeated ==
    \/ CallAcceleratedPayoff
    \/ CallAcceleratedPayoffAgain

SpecRepeated == Init /\ [][NextRepeated]_vars

\* ------------------------------------------------------------------------
\* Vocabulary of the properties
\* ------------------------------------------------------------------------
PeriodsPerYear(f) ==
    CASE f \in {"monthly", "Monthly"} -> 12
      [] f \in {"quarterly", "Quarterly"} -> 4
      [] f \in {"annual", "Annual", "ANNUAL"} -> 1
      [] OTHER -> 0

Recognized(f) == PeriodsPerYear(f) # 0

PeriodRate == RDiv(annual_rate, RInt(PeriodsPerYear(frequency)))

PeriodCount == years * PeriodsPerYear(frequency)

Scheduled == pc \in {"schedule", "dash_schedule", "dash_accel"}

Accelerated == pc \in {"accel", "dash_accel"}

Planned == Accelerated /\ accel.kind = "plan"

\* the balance carried forward, balance := balance * (1 + y) - p, from
\* payment carried.k + 1 to payment hi, the first half of the range first
RECURSIVE CarryForward(_, _, _, _)
CarryForward(y, p, hi, carried) ==
    IF carried.k >= hi THEN carried
    ELSE IF carried.k + 1 = hi
    THEN [k |-> hi, balance |-> RSub(RMul(carried.balance, RAdd(One, y)), p)]
    ELSE CarryForward(y, p, hi, CarryForward(y, p, (carried.k + hi) \div 2, carried))

\* balance after k payments of p when the balance is carried forward from P
ForwardBalance(P, y, p, k) == CarryForward(y, p, k, [k |-> 0, balance |-> P]).balance

\* balance outstanding before payment k of the schedule df
BalanceBefore(df, k) == IF k = 1 THEN principal ELSE df[k - 1].Outstanding_Balance

\* interest plus principal of the rows lo..hi of df
RECURSIVE SumPaid(_, _, _)
SumPaid(df, lo, hi) ==
    IF lo > hi THEN Zero
    ELSE IF lo = hi THEN RAdd(df[lo].Interest_Paid, df[lo].Principal_Paid)
    ELSE RAdd(SumPaid(df, lo, (lo + hi) \div 2), SumPaid(df, ((lo + hi) \div 2) + 1, hi))

\* principal of the rows lo..hi of df
RECURSIVE SumPrincipal(_, _, _)
SumPrincipal(df, lo, hi) ==
    IF lo > hi THEN Zero
    ELSE IF lo = hi THEN df[lo].Principal_Paid
    ELSE RAdd(SumPrincipal(df, lo, (lo + hi) \div 2),
              SumPrincipal(df, ((lo + hi) \div 2) + 1, hi))

\* ------------------------------------------------------------------------
\* Properties
\* ------------------------------------------------------------------------

\* C1: calculate_accelerated_payoff returns the infeasible result (all four
\* outputs None, no schedule) exactly when increased_payment <= principal *
\* period rate; a payment equal to that floor is infeasible and every payment
\* above it yields a plan with an integer n_new >= 1.
C1_InfeasibleIffAtOrBelowInterest ==
    (Accelerated /\ Recognized(frequency)) =>
        /\ (accel.kind = "None") <=> RLeq(increased_payment, RMul(principal, PeriodRate))
        /\ accel.kind = "None" => accel = NoPlan
        /\ RLt(RMul(principal, PeriodRate), increased_payment) =>
               /\ accel.kind = "plan"
               /\ accel.n_new \in Nat
               /\ accel.n_new >= 1

C1_Witness ==
    /\ pc = "accel"
    /\ Recognized(frequency)
    /\ annual_rate # Zero
    /\ increased_payment = RMul(principal, PeriodRate)
    /\ accel = NoPlan

\* C2: for a valid loan generate_amortization_schedule returns exactly
\* n = years * periods per year rows numbered 1..n in order, whose balance
\* never increases from row to row, starts at or below the principal and is
\* exactly 0 in row n.
C2_ScheduleShape ==
    (Scheduled /\ Recognized(frequency)) =>
        /\ sched.error = "none"
        /\ sched.n = PeriodCount
        /\ Len(sched.df) = PeriodCount
        /\ \A k \in 1..Len(sched.df) :
            /\ sched.df[k].Payment_Number = k
            /\ RLeq(sched.df[k].Outstanding_Balance, BalanceBefore(sched.df, k))
        /\ sched.df[Len(sched.df)].Outstanding_Balance = Zero

C2_Witness ==
    /\ pc = "schedule"
    /\ sched.error = "none"
    /\ Len(sched.df) = 12
    /\ sched.y # Zero
    /\ RLt(sched.df[11].Outstanding_Balance, sched.df[10].Outstanding_Balance)

\* C3: in the schedule of a valid loan every row's payment is its interest
\* plus its principal, the interest and principal of all rows add up to
\* payment * n, and the principal of all rows (the last row's cumulative
\* principal) adds up to the principal of the loan.
C3_ScheduleTotals ==
    (Scheduled /\ Recognized(frequency)) =>
        /\ sched.error = "none"
        /\ \A k \in 1..Len(sched.df) :
               sched.df[k].Payment_Amount =
                   RAdd(sched.df[k].Interest_Paid, sched.df[k].Principal_Paid)
        /\ SumPaid(sched.df, 1, Len(sched.df)) = RMul(sched.payment, RInt(sched.n))
        /\ SumPrincipal(sched.df, 1, Len(sched.df)) = principal
        /\ sched.df[Len(sched.df)].Cumulative_Principal = principal

C3_Witness ==
    /\ pc = "schedule"
    /\ sched.error = "none"
    /\ sched.y # Zero
    /\ sched.payment.den # 1
    /\ Len(sched.df) >= 3
    /\ sched.df[Len(sched.df)].Cumulative_Principal = principal

\* C4: for a feasible payment n_new is the ceiling of the analytic payoff
\* horizon (principal / payment at rate zero, otherwise the logarithm of
\* payment / (payment - principal * rate) to the base 1 + rate), which is the
\* least number of payments after which the balance carried forward is <= 0;
\* the new schedule has n_new rows and the balance after every row before
\* the last is strictly positive.
C4_HorizonIsLeastPayoffCount ==
    Planned =>
        /\ Len(accel.new_df) = accel.n_new
        /\ PeriodRate = Zero =>
               accel.n_new = RCeil(RDiv(principal, increased_payment))
        /\ PeriodRate # Zero =>
               LET x == RDiv(increased_payment,
                             RSub(increased_payment, RMul(principal, PeriodRate)))
               IN  /\ RLeq(x, RPow(RAdd(One, PeriodRate), accel.n_new))
                   /\ RLt(RPow(RAdd(One, PeriodRate), accel.n_new - 1), x)
        /\ RLeq(ForwardBalance(principal, PeriodRate, increased_payment, accel.n_new),
                Zero)
        /\ \A k \in 0..(accel.n_new - 1) :
               RLt(Zero, ForwardBalance(principal, PeriodRate, increased_payment, k))
        /\ \A k \in 1..(accel.n_new - 1) :
               RLt(Zero, accel.new_df[k].Outstanding_Balance)

C4_Witness ==
    /\ Planned
    /\ PeriodRate # Zero
    /\ accel.n_new = 4
    /\ RLt(ForwardBalance(principal, PeriodRate, increased_payment, 4), Zero)

\* C5: the last row of the accelerated schedule clears the loan: it repays
\* the balance outstanding before it, its payment is that balance plus the
\* period's interest and is at most increased_payment, and its balance is 0;
\* every earlier row pays increased_payment, of which the principal is what
\* the interest leaves; no row has a negative balance.
C5_FinalRowClearsLoan ==
    Planned =>
        LET df == accel.new_df
            last == accel.n_new
        IN  /\ df[last].Principal_Paid = BalanceBefore(df, last)
            /\ df[last].Interest_Paid = RMul(BalanceBefore(df, last), PeriodRate)
            /\ df[last].Payment_Amount =
                   RAdd(BalanceBefore(df, last), df[last].Interest_Paid)
            /\ RLeq(df[last].Payment_Amount, increased_payment)
            /\ df[last].Outstanding_Balance = Zero
            /\ \A k \in 1..(last - 1) :
                /\ df[k].Payment_Amount = increased_payment
                /\ df[k].Interest_Paid = RMul(BalanceBefore(df, k), PeriodRate)
                /\ df[k].Principal_Paid = RSub(increased_payment, df[k].Interest_Paid)
            /\ \A k \in 1..last : df[k].Outstanding_Balance.num >= 0

C5_Witness ==
    /\ Planned
    /\ PeriodRate # Zero
    /\ accel.n_new >= 3
    /\ RLt(accel.new_df[accel.n_new].Payment_Amount, increased_payment)
    /\ accel.new_df[accel.n_new].Outstanding_Balance = Zero

\* C6: for one loan and two feasible payments p1 < p2 the larger payment
\* needs no more payments and pays no more interest in total (the last
\* row's cumulative interest) than the smaller.
C6_PayoffMonotone ==
    (/\ pc = "accel2"
     /\ accel.kind = "plan"
     /\ accel2.kind = "plan"
     /\ RLt(increased_payment, second_payment)) =>
        /\ accel2.n_new <= accel.n_new
        /\ RLeq(accel2.new_df[accel2.n_new].Cumulative_Interest,
                accel.new_df[accel.n_new].Cumulative_Interest)

C6_Witness ==
    /\ pc = "accel2"
    /\ accel.kind = "plan"
    /\ accel2.kind = "plan"
    /\ annual_rate # Zero
    /\ RLt(increased_payment, second_payment)
    /\ accel2.n_new < accel.n_new
    /\ RLt(accel2.new_df[accel2.n_new].Cumulative_Interest,
           accel.new_df[accel.n_new].Cumulative_Interest)

\* C7: at rate zero calculate_payment returns principal / n without dividing
\* by zero, every row of the schedule has no interest, repays payment and
\* leaves payment * (n - k), and calculate_accelerated_payoff takes
\* ceil(principal / increased_payment) payments without interest.
C7_ZeroRate ==
    (Recognized(frequency) /\ annual_rate = Zero) =>
        /\ pc = "payment" =>
               /\ pay.error = "none"
               /\ pay.y = Zero
               /\ pay.payment = RDiv(principal, RInt(PeriodCount))
        /\ Scheduled =>
               /\ sched.error = "none"
               /\ sched.payment = RDiv(principal, RInt(PeriodCount))
               /\ \A k \in 1..Len(sched.df) :
                   /\ sched.df[k].Interest_Paid = Zero
                   /\ sched.df[k].Principal_Paid = sched.payment
                   /\ sched.df[k].Outstanding_Balance =
                          RMul(sched.payment, RInt(PeriodCount - k))
        /\ (Accelerated /\ RLt(Zero, increased_payment)) =>
               /\ accel.kind = "plan"
               /\ accel.n_new = RCeil(RDiv(principal, increased_payment))
               /\ \A k \in 1..Len(accel.new_df) :
                      accel.new_df[k].Interest_Paid = Zero

C7_Witness ==
    /\ pc = "dash_accel"
    /\ annual_rate = Zero
    /\ sched.payment.den # 1
    /\ accel.kind = "plan"
    /\ accel.n_new >= 2
    /\ accel.new_df[accel.n_new].Interest_Paid = Zero

\* C8: each of the three functions fails with the invalid-frequency error
\* (KeyError), producing nothing, when the frequency compared without
\* regard to case is not monthly, quarterly or annual, and never raises it
\* for those three; in calculate_accelerated_payoff the error comes before
\* the infeasible result.
C8_InvalidFrequency ==
    /\ pc = "payment" =>
           /\ (pay.error = "KeyError") <=> ~Recognized(frequency)
           /\ ~Recognized(frequency) => pay = NoPayment
    /\ Scheduled =>
           /\ (sched.error = "KeyError") <=> ~Recognized(frequency)
           /\ ~Recognized(frequency) => sched = NoSchedule
    /\ Accelerated =>
           /\ (accel.kind = "KeyError") <=> ~Recognized(frequency)
           /\ ~Recognized(frequency) => accel = [NoPlan EXCEPT !.kind = "KeyError"]

C8_Witness ==
    /\ pc = "accel"
    /\ ~Recognized(frequency)
    /\ increased_payment = Zero
    /\ accel.kind = "KeyError"

\* C9: the closed-form balance of the fixed-payment schedule equals the
\* balance carried forward, balance_k = balance_(k-1) * (1 + r) - payment
\* from balance_0 = principal, so the schedule built by carrying the balance
\* forward has the same balance, interest and principal in every row.
C9_ClosedFormIsRecurrence ==
    (Scheduled /\ Recognized(frequency)) =>
        /\ sched.error = "none"
        /\ \A k \in 1..Len(sched.df) :
            /\ sched.df[k].Outstanding_Balance =
                   RSub(RMul(BalanceBefore(sched.df, k), RAdd(One, sched.y)),
                        sched.payment)
            /\ sched.df[k].Outstanding_Balance =
                   ForwardBalance(principal, sched.y, sched.payment, k)
            /\ sched.df[k].Interest_Paid =
                   RMul(ForwardBalance(principal, sched.y, sched.payment, k - 1),
                        sched.y)
            /\ sched.df[k].Principal_Paid =
                   RSub(sched.payment,
                        RMul(ForwardBalance(principal, sched.y, sched.payment, k - 1),
                             sched.y))

C9_Witness ==
    /\ pc = "schedule"
    /\ sched.error = "none"
    /\ sched.y # Zero
    /\ Len(sched.df) = 4
    /\ sched.df[3].Outstanding_Balance.den # 1
    /\ sched.df[3].Outstanding_Balance =
           ForwardBalance(principal, sched.y, sched.payment, 3)

\* C10: in the dashboard's flow the savings are relative to the loan whose
\* schedule was generated: periods_saved = n - n_new and interest_saved =
\* total interest of that n-period schedule - total interest of the new one.
C10_SavingsAgainstOriginalLoan ==
    (pc = "dash_accel" /\ accel.kind = "plan") =>
        /\ accel.periods_saved = sched.n - accel.n_new
        /\ accel.interest_saved =
               RSub(sched.df[Len(sched.df)].Cumulative_Interest,
                    accel.new_df[accel.n_new].Cumulative_Interest)

====
